---- MODULE Spec2Model ----
(***************************************************************************)
(* The announcement noticeboard: the in-memory store of                    *)
(* AnnouncementsService (announcements, comments, reactions and the        *)
(* reaction counters) and the HTTP handlers of AnnouncementsController     *)
(* that drive it.  Every handler runs to completion (single-threaded       *)
(* request loop), so one handler is one step.                              *)
(***************************************************************************)
EXTENDS Integers, Sequences, FiniteSets, TLC

VARIABLES announcements,     \* AnnouncementsService.announcements (array)
          comments,          \* AnnouncementsService.comments (array)
          reactions,         \* AnnouncementsService.reactions (array)
          reactionCounters,  \* announcementId -> reactionType -> set of userIds
          nextId,            \* the ids uuidv4() has handed out are 1..nextId-1
          now,               \* the clock read by new Date()
          last,              \* the last request handled and its response
          before,            \* the store as it was when that request arrived
          client             \* state of the frontend's Reactions and Comments components

vars == <<announcements, comments, reactions, reactionCounters, nextId, now, last, before,
          client>>

----------------------------------------------------------------------------
(* Bounds of the model *)

MaxAnnouncements == 2
MaxId == 3
MaxTime == 1
MaxLimit == 2
QuotaAnnouncements == 1
QuotaMaxId == 6
ReactAnnouncements == 1
ReactMaxId == 3
PageAnnouncements == 2
PageMaxId == 5
SummaryAnnouncements == 2
SummaryMaxId == 3
ClickAnnouncements == 1
ClickMaxId == 4
TraverseAnnouncements == 1
TraverseMaxId == 4

(* Program constants *)

CommentQuota == 4

(* Input domains *)

ReactionTypes == {"up", "down", "heart"}
Statuses == {"active", "closed"}
Users == {"u1", "u2"}
NoUser == ""
Headers == Users \cup {NoUser}
OneHeader == {"u1", NoUser}
Authors == {"alice", "bob"}
OneAuthor == {"alice"}
Titles == {"t"}
Texts == {"x"}
None == "none"
UnknownIds == {0}
NoCursor == -1

----------------------------------------------------------------------------
(* Array helpers of the runtime *)

\* Array.prototype.findIndex / find, given the set of indices whose element
\* passes the test: the first of them, 0 when there is none (JavaScript: -1
\* or undefined)
findIndex(matching) ==
    IF matching = {} THEN 0
    ELSE CHOOSE i \in matching : \A j \in matching : i <= j

RECURSIVE insertDesc(_, _)
\* inserts x after every element whose createdAt is >= x.createdAt
insertDesc(sorted, x) ==
    IF sorted = <<>> THEN <<x>>
    ELSE IF Head(sorted).createdAt >= x.createdAt
         THEN <<Head(sorted)>> \o insertDesc(Tail(sorted), x)
         ELSE <<x>> \o sorted

\* Mutant: the comments are left in insertion order.
sortByCreatedAtDesc_unsorted(seq) == seq

RECURSIVE sortByCreatedAtDesc(_)
\* Array.prototype.sort((a, b) => b.createdAt - a.createdAt): stable
sortByCreatedAtDesc(seq) ==
    IF seq = <<>> THEN <<>>
    ELSE insertDesc(sortByCreatedAtDesc(SubSeq(seq, 1, Len(seq) - 1)), seq[Len(seq)])

slice(seq, from, to) == SubSeq(seq, from + 1, IF to < Len(seq) THEN to ELSE Len(seq))

----------------------------------------------------------------------------
(* The store and the outcome of a service call *)

Store == [announcements |-> announcements, comments |-> comments,
          reactions |-> reactions, reactionCounters |-> reactionCounters]

\* a call that returns value v having left the store as s and used n ids
Return(s, n, v) == [store |-> s, nextId |-> n, status |-> "ok", value |-> v]

\* a call that throws exception e having left the store as s
Throw(s, e) == [store |-> s, nextId |-> nextId, status |-> e, value |-> None]

uuidv4 == nextId

\* Mutant: the existence check is missing.
announcementExists_always(announcementId) == TRUE

announcementExists(announcementId) ==
    findIndex({i \in DOMAIN announcements : announcements[i].id = announcementId}) # 0

----------------------------------------------------------------------------
(* AnnouncementsService *)

\* Mutant: the id generator hands out the same id every time.
create_sameId(dto) ==
    LET announcement == [id |-> 1, title |-> dto.title,
                         description |-> dto.description,
                         status |-> "active", createdAt |-> now]
    IN Return([Store EXCEPT !.announcements = Append(announcements, announcement)],
              nextId + 1, announcement)

create(dto) ==
    LET announcement == [id |-> uuidv4, title |-> dto.title,
                         description |-> dto.description,
                         status |-> "active", createdAt |-> now]
    IN Return([Store EXCEPT !.announcements = Append(announcements, announcement)],
              nextId + 1, announcement)

\* Mutant: the status is written to every announcement.
update_all(id, dto) ==
    LET announcementIndex == findIndex({i \in DOMAIN announcements :
                                           announcements[i].id = id})
    IN IF announcementIndex = 0
       THEN Throw(Store, "NotFound")
       ELSE LET updated == [i \in DOMAIN announcements |->
                               [announcements[i] EXCEPT !.status = dto.status]]
            IN Return([Store EXCEPT !.announcements = updated], nextId,
                      updated[announcementIndex])

update(id, dto) ==
    LET announcementIndex == findIndex({i \in DOMAIN announcements :
                                           announcements[i].id = id})
    IN IF announcementIndex = 0
       THEN Throw(Store, "NotFound")
       ELSE LET updated == [announcements EXCEPT ![announcementIndex].status = dto.status]
            IN Return([Store EXCEPT !.announcements = updated], nextId,
                      updated[announcementIndex])

\* Mutant: the quota is off by one (> instead of >=).
addComment_offByOne(announcementId, dto, userId) ==
    IF ~announcementExists(announcementId)
    THEN Throw(Store, "NotFound")
    ELSE LET userComments == SelectSeq(comments, LAMBDA c :
                 c.announcementId = announcementId /\ c.authorName = dto.authorName)
             comment == [id |-> uuidv4, announcementId |-> announcementId,
                         authorName |-> dto.authorName, text |-> dto.text,
                         createdAt |-> now]
         IN IF userId # NoUser /\ Len(userComments) > CommentQuota
            THEN Throw(Store, "Forbidden")
            ELSE Return([Store EXCEPT !.comments = Append(comments, comment)],
                        nextId + 1, comment)

\* Mutant: the comment is pushed before the quota is checked.
addComment_pushesFirst(announcementId, dto, userId) ==
    IF ~announcementExists(announcementId)
    THEN Throw(Store, "NotFound")
    ELSE LET userComments == SelectSeq(comments, LAMBDA c :
                 c.announcementId = announcementId /\ c.authorName = dto.authorName)
             comment == [id |-> uuidv4, announcementId |-> announcementId,
                         authorName |-> dto.authorName, text |-> dto.text,
                         createdAt |-> now]
         IN IF userId # NoUser /\ Len(userComments) >= CommentQuota
            THEN Throw([Store EXCEPT !.comments = Append(comments, comment)], "Forbidden")
            ELSE Return([Store EXCEPT !.comments = Append(comments, comment)],
                        nextId + 1, comment)

\* Mutant: a closed announcement takes no further comments.
addComment_closedRejects(announcementId, dto, userId) ==
    IF ~announcementExists(announcementId)
    THEN Throw(Store, "NotFound")
    ELSE LET userComments == SelectSeq(comments, LAMBDA c :
                 c.announcementId = announcementId /\ c.authorName = dto.authorName)
             comment == [id |-> uuidv4, announcementId |-> announcementId,
                         authorName |-> dto.authorName, text |-> dto.text,
                         createdAt |-> now]
             closed == \E i \in DOMAIN announcements :
                          /\ announcements[i].id = announcementId
                          /\ announcements[i].status = "closed"
         IN IF closed \/ (userId # NoUser /\ Len(userComments) >= CommentQuota)
            THEN Throw(Store, "Forbidden")
            ELSE Return([Store EXCEPT !.comments = Append(comments, comment)],
                        nextId + 1, comment)

addComment(announcementId, dto, userId) ==
    IF ~announcementExists(announcementId)
    THEN Throw(Store, "NotFound")
    ELSE LET userComments == SelectSeq(comments, LAMBDA c :
                 c.announcementId = announcementId /\ c.authorName = dto.authorName)
             comment == [id |-> uuidv4, announcementId |-> announcementId,
                         authorName |-> dto.authorName, text |-> dto.text,
                         createdAt |-> now]
         IN IF userId # NoUser /\ Len(userComments) >= CommentQuota
            THEN Throw(Store, "Forbidden")
            ELSE Return([Store EXCEPT !.comments = Append(comments, comment)],
                        nextId + 1, comment)

\* Mutant: the page after a cursor starts at the cursor comment itself.
getComments_inclusiveCursor(announcementId, cursor, limit) ==
    IF ~announcementExists(announcementId)
    THEN Throw(Store, "NotFound")
    ELSE LET sorted == sortByCreatedAtDesc(
                 SelectSeq(comments, LAMBDA c : c.announcementId = announcementId))
             cursorIndex == IF cursor = NoCursor THEN 0
                            ELSE findIndex({i \in DOMAIN sorted : sorted[i].id = cursor})
             announcementComments == IF cursorIndex # 0
                                     THEN slice(sorted, cursorIndex - 1, Len(sorted))
                                     ELSE sorted
             paginatedComments == slice(announcementComments, 0, limit)
             nextCursor == IF Len(paginatedComments) = limit
                           THEN paginatedComments[limit].id
                           ELSE NoCursor
         IN IF Len(paginatedComments) = limit /\ limit = 0
            THEN Throw(Store, "TypeError")
            ELSE Return(Store, nextId,
                        [comments |-> paginatedComments, nextCursor |-> nextCursor])

\* Mutant: a cursor that matches no comment of the announcement is an error.
getComments_strictCursor(announcementId, cursor, limit) ==
    IF ~announcementExists(announcementId)
    THEN Throw(Store, "NotFound")
    ELSE LET sorted == sortByCreatedAtDesc(
                 SelectSeq(comments, LAMBDA c : c.announcementId = announcementId))
             cursorIndex == IF cursor = NoCursor THEN 0
                            ELSE findIndex({i \in DOMAIN sorted : sorted[i].id = cursor})
             announcementComments == IF cursorIndex # 0
                                     THEN slice(sorted, cursorIndex, Len(sorted))
                                     ELSE sorted
             paginatedComments == slice(announcementComments, 0, limit)
             nextCursor == IF Len(paginatedComments) = limit
                           THEN paginatedComments[limit].id
                           ELSE NoCursor
         IN IF cursor # NoCursor /\ cursorIndex = 0
            THEN Throw(Store, "NotFound")
            ELSE IF Len(paginatedComments) = limit /\ limit = 0
                 THEN Throw(Store, "TypeError")
                 ELSE Return(Store, nextId,
                             [comments |-> paginatedComments, nextCursor |-> nextCursor])

\* Mutant: a nextCursor is returned only when a comment follows the page.
getComments_cursorIfMore(announcementId, cursor, limit) ==
    IF ~announcementExists(announcementId)
    THEN Throw(Store, "NotFound")
    ELSE LET sorted == sortByCreatedAtDesc(
                 SelectSeq(comments, LAMBDA c : c.announcementId = announcementId))
             cursorIndex == IF cursor = NoCursor THEN 0
                            ELSE findIndex({i \in DOMAIN sorted : sorted[i].id = cursor})
             announcementComments == IF cursorIndex # 0
                                     THEN slice(sorted, cursorIndex, Len(sorted))
                                     ELSE sorted
             paginatedComments == slice(announcementComments, 0, limit)
             nextCursor == IF Len(paginatedComments) = limit
                              /\ Len(announcementComments) > limit
                           THEN paginatedComments[limit].id
                           ELSE NoCursor
         IN IF Len(paginatedComments) = limit /\ limit = 0
            THEN Throw(Store, "TypeError")
            ELSE Return(Store, nextId,
                        [comments |-> paginatedComments, nextCursor |-> nextCursor])

getComments(announcementId, cursor, limit) ==
    IF ~announcementExists(announcementId)
    THEN Throw(Store, "NotFound")
    ELSE LET sorted == sortByCreatedAtDesc(
                 SelectSeq(comments, LAMBDA c : c.announcementId = announcementId))
             cursorIndex == IF cursor = NoCursor THEN 0
                            ELSE findIndex({i \in DOMAIN sorted : sorted[i].id = cursor})
             announcementComments == IF cursorIndex # 0
                                     THEN slice(sorted, cursorIndex, Len(sorted))
                                     ELSE sorted
             paginatedComments == slice(announcementComments, 0, limit)
             nextCursor == IF Len(paginatedComments) = limit
                           THEN paginatedComments[limit].id
                           ELSE NoCursor
         IN IF Len(paginatedComments) = limit /\ limit = 0
            THEN Throw(Store, "TypeError")  \* paginatedComments[-1] is undefined
            ELSE Return(Store, nextId,
                        [comments |-> paginatedComments, nextCursor |-> nextCursor])

\* Mutant: the comment is looked up by its id alone.
deleteComment_anyAnnouncement(announcementId, commentId, userId) ==
    IF ~announcementExists(announcementId)
    THEN Throw(Store, "NotFound")
    ELSE LET found == findIndex({i \in DOMAIN comments : comments[i].id = commentId})
             remaining == SelectSeq(comments, LAMBDA c : c.id # commentId)
         IN IF found = 0
            THEN Throw(Store, "NotFound")
            ELSE IF Len(remaining) = Len(comments)
                 THEN Throw([Store EXCEPT !.comments = remaining], "NotFound")
                 ELSE Return([Store EXCEPT !.comments = remaining], nextId, None)

\* Mutant: only the user u1 may delete a comment.
deleteComment_adminOnly(announcementId, commentId, userId) ==
    IF ~announcementExists(announcementId)
    THEN Throw(Store, "NotFound")
    ELSE LET found == findIndex({i \in DOMAIN comments :
                 comments[i].id = commentId /\ comments[i].announcementId = announcementId})
             remaining == SelectSeq(comments, LAMBDA c : c.id # commentId)
         IN IF found = 0
            THEN Throw(Store, "NotFound")
            ELSE IF userId # "u1"
                 THEN Throw(Store, "Forbidden")
                 ELSE IF Len(remaining) = Len(comments)
                      THEN Throw([Store EXCEPT !.comments = remaining], "NotFound")
                      ELSE Return([Store EXCEPT !.comments = remaining], nextId, None)

deleteComment(announcementId, commentId, userId) ==
    IF ~announcementExists(announcementId)
    THEN Throw(Store, "NotFound")
    ELSE LET found == findIndex({i \in DOMAIN comments :
                 comments[i].id = commentId /\ comments[i].announcementId = announcementId})
             remaining == SelectSeq(comments, LAMBDA c : c.id # commentId)
         IN IF found = 0
            THEN Throw(Store, "NotFound")
            ELSE IF Len(remaining) = Len(comments)
                 THEN Throw([Store EXCEPT !.comments = remaining], "NotFound")
                 ELSE Return([Store EXCEPT !.comments = remaining], nextId, None)

\* Mutant: the lookup matches the user on any announcement.
getUserReaction_anyAnnouncement(announcementId, userId) ==
    IF ~announcementExists(announcementId)
    THEN Throw(Store, "NotFound")
    ELSE LET userReaction == findIndex({i \in DOMAIN reactions : reactions[i].userId = userId})
         IN Return(Store, nextId, IF userReaction = 0 THEN None
                                   ELSE reactions[userReaction].type)

getUserReaction(announcementId, userId) ==
    IF ~announcementExists(announcementId)
    THEN Throw(Store, "NotFound")
    ELSE LET userReaction == findIndex({i \in DOMAIN reactions :
                 reactions[i].announcementId = announcementId /\ reactions[i].userId = userId})
         IN Return(Store, nextId, IF userReaction = 0 THEN None
                                   ELSE reactions[userReaction].type)

\* the counters map after the helper has run for announcementId
initializeAnnouncementCounters(counters, announcementId) ==
    IF announcementId \notin DOMAIN counters
    THEN [a \in (DOMAIN counters) \cup {announcementId} |->
             IF a = announcementId THEN [t \in ReactionTypes |-> {}] ELSE counters[a]]
    ELSE counters

\* Mutant: the lookup never finds the user's row.
currentPointerOf_never(rs, announcementId, userId) == 0

\* this.reactions.find(r => r.announcementId === announcementId && r.userId === userId),
\* as an index into rs (0: undefined)
currentPointerOf(rs, announcementId, userId) ==
    findIndex({i \in DOMAIN rs : rs[i].announcementId = announcementId /\ rs[i].userId = userId})

\* Mutant: the user is left in the counter set.
counterDelete_noop(counters, announcementId, type, userId) == counters

\* counters.get(type)!.delete(userId)
counterDelete(counters, announcementId, type, userId) ==
    [counters EXCEPT ![announcementId][type] = @ \ {userId}]

\* Mutant: the user is not added to the counter set.
counterAdd_noop(counters, announcementId, type, userId) == counters

\* counters.get(type)!.add(userId)
counterAdd(counters, announcementId, type, userId) ==
    [counters EXCEPT ![announcementId][type] = @ \cup {userId}]

\* Mutant: the old row is left in the array.
withoutPointer_keepsAll(rs, announcementId, userId) == rs

\* this.reactions.filter(r => !(r.announcementId === announcementId && r.userId === userId))
withoutPointer(rs, announcementId, userId) ==
    SelectSeq(rs, LAMBDA r : ~(r.announcementId = announcementId /\ r.userId = userId))

\* Mutant: setting the type the user already holds toggles the reaction off.
addReaction_togglesOff(announcementId, userId, dto) ==
    IF ~announcementExists(announcementId)
    THEN Throw(Store, "NotFound")
    ELSE LET initialized == initializeAnnouncementCounters(reactionCounters, announcementId)
             currentPointer == currentPointerOf(reactions, announcementId, userId)
             decreased == IF currentPointer # 0
                          THEN counterDelete(initialized, announcementId,
                                             reactions[currentPointer].type, userId)
                          ELSE initialized
             kept == IF currentPointer # 0
                     THEN withoutPointer(reactions, announcementId, userId)
                     ELSE reactions
             newReaction == [id |-> uuidv4, announcementId |-> announcementId,
                             userId |-> userId, type |-> dto.type, createdAt |-> now]
             increased == counterAdd(decreased, announcementId, dto.type, userId)
         IN IF currentPointer # 0 /\ reactions[currentPointer].type = dto.type
            THEN Return([Store EXCEPT !.reactionCounters = decreased,
                                      !.reactions = kept],
                        nextId + 1, newReaction)
            ELSE Return([Store EXCEPT !.reactionCounters = increased,
                                      !.reactions = Append(kept, newReaction)],
                        nextId + 1, newReaction)

addReaction(announcementId, userId, dto) ==
    IF ~announcementExists(announcementId)
    THEN Throw(Store, "NotFound")
    ELSE LET initialized == initializeAnnouncementCounters(reactionCounters, announcementId)
             currentPointer == currentPointerOf(reactions, announcementId, userId)
             decreased == IF currentPointer # 0
                          THEN counterDelete(initialized, announcementId,
                                             reactions[currentPointer].type, userId)
                          ELSE initialized
             kept == IF currentPointer # 0
                     THEN withoutPointer(reactions, announcementId, userId)
                     ELSE reactions
             newReaction == [id |-> uuidv4, announcementId |-> announcementId,
                             userId |-> userId, type |-> dto.type, createdAt |-> now]
             increased == counterAdd(decreased, announcementId, dto.type, userId)
         IN Return([Store EXCEPT !.reactionCounters = increased,
                                 !.reactions = Append(kept, newReaction)],
                   nextId + 1, newReaction)

\* Mutant: removing a reaction the user does not have succeeds silently.
removeReaction_silent(announcementId, userId) ==
    IF ~announcementExists(announcementId)
    THEN Throw(Store, "NotFound")
    ELSE LET initialized == initializeAnnouncementCounters(reactionCounters, announcementId)
             currentPointer == currentPointerOf(reactions, announcementId, userId)
         IN IF currentPointer = 0
            THEN Return([Store EXCEPT !.reactionCounters = initialized], nextId, None)
            ELSE Return([Store EXCEPT
                    !.reactionCounters = counterDelete(initialized, announcementId,
                                             reactions[currentPointer].type, userId),
                    !.reactions = withoutPointer(reactions, announcementId, userId)],
                    nextId, None)

removeReaction(announcementId, userId) ==
    IF ~announcementExists(announcementId)
    THEN Throw(Store, "NotFound")
    ELSE LET initialized == initializeAnnouncementCounters(reactionCounters, announcementId)
             currentPointer == currentPointerOf(reactions, announcementId, userId)
         IN IF currentPointer = 0
            THEN Throw([Store EXCEPT !.reactionCounters = initialized], "NotFound")
            ELSE Return([Store EXCEPT
                    !.reactionCounters = counterDelete(initialized, announcementId,
                                             reactions[currentPointer].type, userId),
                    !.reactions = withoutPointer(reactions, announcementId, userId)],
                    nextId, None)

\* Mutant: the announcements are returned in the order they are stored in.
findAll_unsorted == Return(Store, nextId, announcements)

\* this.announcements.sort(...) sorts the stored array itself and returns it
findAll ==
    LET sorted == sortByCreatedAtDesc(announcements)
    IN Return([Store EXCEPT !.announcements = sorted], nextId, sorted)

\* comments.filter(...).reduce((latest, x) => x.createdAt > latest ? x.createdAt
\* : latest, new Date(0)): the latest createdAt of seq, the epoch when empty
RECURSIVE reduceLatest(_, _)
reduceLatest(seq, latest) ==
    IF seq = <<>> THEN latest
    ELSE reduceLatest(Tail(seq), IF Head(seq).createdAt > latest
                                 THEN Head(seq).createdAt ELSE latest)

\* Mutant: the latest reaction time is left out of the maximum.
MathMax_withoutLast(x, y, z) == IF x >= y THEN x ELSE y

\* Math.max of three times
MathMax(x, y, z) ==
    LET xy == IF x >= y THEN x ELSE y
    IN IF xy >= z THEN xy ELSE z

\* announcementCounters?.get(type)?.size || 0 in the store s
counterSize(s, announcementId, type) ==
    IF announcementId \in DOMAIN s.reactionCounters
    THEN Cardinality(s.reactionCounters[announcementId][type])
    ELSE 0

\* the summary the map callback builds for one announcement of the store s
summaryOf(s, announcement) ==
    LET ofAnnouncement(seq) ==
            SelectSeq(seq, LAMBDA x : x.announcementId = announcement.id)
        commentCount == Len(ofAnnouncement(s.comments))
        latestCommentTime == reduceLatest(ofAnnouncement(s.comments), 0)
        latestReactionTime == reduceLatest(ofAnnouncement(s.reactions), 0)
    IN [id |-> announcement.id, title |-> announcement.title,
        description |-> announcement.description, status |-> announcement.status,
        createdAt |-> announcement.createdAt,
        commentCount |-> commentCount,
        reactions |-> [t \in ReactionTypes |-> counterSize(s, announcement.id, t)],
        lastActivityAt |-> MathMax(announcement.createdAt, latestCommentTime,
                                   latestReactionTime)]

RECURSIVE insertByLastActivity(_, _)
\* inserts x after every element whose lastActivityAt is >= x.lastActivityAt
insertByLastActivity(sorted, x) ==
    IF sorted = <<>> THEN <<x>>
    ELSE IF Head(sorted).lastActivityAt >= x.lastActivityAt
         THEN <<Head(sorted)>> \o insertByLastActivity(Tail(sorted), x)
         ELSE <<x>> \o sorted

\* Mutant: the summaries are left in the order of the announcements array.
sortByLastActivityAtDesc_unsorted(seq) == seq

RECURSIVE sortByLastActivityAtDesc(_)
\* Array.prototype.sort((a, b) => b.lastActivityAt - a.lastActivityAt): stable
sortByLastActivityAtDesc(seq) ==
    IF seq = <<>> THEN <<>>
    ELSE insertByLastActivity(sortByLastActivityAtDesc(SubSeq(seq, 1, Len(seq) - 1)),
                              seq[Len(seq)])

\* what is serialized for the hash: id, lastActivityAt, commentCount and
\* reactions of every summary, in list order
dataForHash(summaries) ==
    [i \in DOMAIN summaries |->
        [id |-> summaries[i].id, lastActivityAt |-> summaries[i].lastActivityAt,
         commentCount |-> summaries[i].commentCount,
         reactions |-> summaries[i].reactions]]

\* createHash('md5').update(JSON.stringify(data)).digest('hex') in quotes: a
\* function of the serialized data alone, taken to be free of collisions
md5(data) == <<"md5", data>>

\* findAllWithSummary run on the store s
findAllWithSummaryIn(s) ==
    LET mapped == [i \in DOMAIN s.announcements |-> summaryOf(s, s.announcements[i])]
        announcementSummaries == sortByLastActivityAtDesc(mapped)
    IN [announcements |-> announcementSummaries,
        etag |-> md5(dataForHash(announcementSummaries))]

findAllWithSummary == findAllWithSummaryIn(Store)


----------------------------------------------------------------------------
(* AnnouncementsController: the handlers in front of the service *)

BadRequest == Throw(Store, "BadRequest")

Controller_create(dto) == create(dto)

\* GET /announcements of the controller without summaries
PlainController_findAll == findAll

\* no If-None-Match header
NoEtag == <<>>

\* Mutant: any If-None-Match header is taken for a match.
Controller_findAll_anyHeader(ifNoneMatch) ==
    LET result == findAllWithSummary
    IN IF ifNoneMatch # NoEtag
       THEN Return(Store, nextId, [code |-> 304, ETag |-> NoEtag, body |-> <<>>])
       ELSE Return(Store, nextId, [code |-> 200, ETag |-> result.etag,
                                   body |-> result.announcements])

\* GET /announcements: the response is the status code, the ETag header and
\* the body
Controller_findAll(ifNoneMatch) ==
    LET result == findAllWithSummary
    IN IF ifNoneMatch # NoEtag /\ ifNoneMatch = result.etag
       THEN Return(Store, nextId, [code |-> 304, ETag |-> NoEtag, body |-> <<>>])
       ELSE Return(Store, nextId, [code |-> 200, ETag |-> result.etag,
                                   body |-> result.announcements])

Controller_update(id, dto) == update(id, dto)

Controller_addComment(id, dto, userId) == addComment(id, dto, userId)

Controller_getComments(id, cursor, limit) == getComments(id, cursor, limit)

Controller_getUserReaction(id, userId) ==
    IF userId = NoUser THEN Return(Store, nextId, None)
    ELSE getUserReaction(id, userId)

Controller_deleteComment(id, commentId, userId) ==
    IF userId = NoUser THEN BadRequest
    ELSE deleteComment(id, commentId, userId)

Controller_addReaction(id, userId, dto) ==
    IF userId = NoUser THEN BadRequest
    ELSE addReaction(id, userId, dto)

\* Mutant: the header check is missing.
Controller_removeReaction_unchecked(id, userId) == removeReaction(id, userId)

Controller_removeReaction(id, userId) ==
    IF userId = NoUser THEN BadRequest
    ELSE removeReaction(id, userId)

----------------------------------------------------------------------------
(* The Comments component of the frontend: the first page, then "load more"
   with the cursor of the page before, appending each page to what is shown *)

RECURSIVE fetchComments(_, _, _, _, _)
\* fetchComments(cursor) followed by loadMoreComments for as long as the
\* response carries a nextCursor, at most `more` further times; the comments
\* shown at the end, the number of pages fetched and whether a cursor is left
fetchComments(announcementId, limit, shown, cursor, more) ==
    LET response == Controller_getComments(announcementId, cursor, limit).value
        appended == IF cursor # NoCursor THEN shown \o response.comments
                    ELSE response.comments
    IN IF response.nextCursor = NoCursor \/ more = 0
       THEN [comments |-> appended, nextCursor |-> response.nextCursor,
             pages |-> 1]
       ELSE LET rest == fetchComments(announcementId, limit, appended,
                                      response.nextCursor, more - 1)
            IN [rest EXCEPT !.pages = @ + 1]

\* every page of the announcement's comments, loaded one after the other
loadAllComments(announcementId, limit) ==
    fetchComments(announcementId, limit, <<>>, NoCursor, Len(comments))

----------------------------------------------------------------------------
(* The Reactions component of the frontend: one user's buttons for one
   announcement *)

\* lib/api.ts getUserId(): the id this browser sends as x-user-id
getUserId == "u1"

\* Mutant: a click always sets the clicked type.
handleReaction_alwaysSets(announcementId, localUserReaction, type) ==
    LET out == Controller_addReaction(announcementId, getUserId, [type |-> type])
    IN [op |-> "addReaction", arg |-> [type |-> type], out |-> out,
        localUserReaction |-> IF out.status = "ok" THEN type ELSE localUserReaction]

\* handleReaction(type): the request sent, its outcome, and the local pointer
\* afterwards (set only when the request succeeded)
handleReaction(announcementId, localUserReaction, type) ==
    IF localUserReaction = type
    THEN LET out == Controller_removeReaction(announcementId, getUserId)
         IN [op |-> "removeReaction", arg |-> None, out |-> out,
             localUserReaction |-> IF out.status = "ok" THEN None
                                   ELSE localUserReaction]
    ELSE LET out == Controller_addReaction(announcementId, getUserId, [type |-> type])
         IN [op |-> "addReaction", arg |-> [type |-> type], out |-> out,
             localUserReaction |-> IF out.status = "ok" THEN type
                                   ELSE localUserReaction]

----------------------------------------------------------------------------
(* AllExceptionsFilter: the response for an exception that reaches the global
   filter.  An exception is [http, status, response, message]: http tells an
   HttpException from anything else, response is what getResponse() returns
   (a string, or an object with optional message and details), message is
   exception.message.  A message is [isArray, items]: a list of strings, or a
   string (items of length one), or nothing (no items). *)

NoMessage == [isArray |-> FALSE, items |-> <<>>]
NoDetails == "null"

getErrorCode(status) ==
    CASE status = 400 -> "BAD_REQUEST"
      [] status = 401 -> "UNAUTHORIZED"
      [] status = 403 -> "FORBIDDEN"
      [] status = 404 -> "NOT_FOUND"
      [] status = 429 -> "TOO_MANY_REQUESTS"
      [] status = 500 -> "INTERNAL_SERVER_ERROR"
      [] OTHER -> "UNKNOWN_ERROR"

\* Mutant: a list of messages makes a validation error whatever the status.
catch_listAnyStatus(exception, url) ==
    IF exception.http
    THEN LET status == exception.status
             exceptionResponse == exception.response
         IN IF exceptionResponse.isObject
            THEN IF exceptionResponse.message.isArray
                 THEN [status |-> status,
                       body |-> [code |-> "VALIDATION_ERROR",
                                 message |-> [isArray |-> FALSE,
                                              items |-> <<"Validation failed">>],
                                 details |-> exceptionResponse.message.items,
                                 timestamp |-> now, path |-> url]]
                 ELSE [status |-> status,
                       body |-> [code |-> getErrorCode(status),
                                 message |-> IF exceptionResponse.message # NoMessage
                                             THEN exceptionResponse.message
                                             ELSE exception.message,
                                 details |-> exceptionResponse.details,
                                 timestamp |-> now, path |-> url]]
            ELSE [status |-> status,
                  body |-> [code |-> getErrorCode(status),
                            message |-> exception.message,
                            timestamp |-> now, path |-> url]]
    ELSE [status |-> 500,
          body |-> [code |-> "INTERNAL_SERVER_ERROR",
                    message |-> [isArray |-> FALSE, items |-> <<"Internal server error">>],
                    timestamp |-> now, path |-> url]]

\* AllExceptionsFilter.catch: the status and the JSON body sent
catch(exception, url) ==
    IF exception.http
    THEN LET status == exception.status
             exceptionResponse == exception.response
         IN IF exceptionResponse.isObject
            THEN IF status = 400 /\ exceptionResponse.message.isArray
                 THEN [status |-> status,
                       body |-> [code |-> "VALIDATION_ERROR",
                                 message |-> [isArray |-> FALSE,
                                              items |-> <<"Validation failed">>],
                                 details |-> exceptionResponse.message.items,
                                 timestamp |-> now, path |-> url]]
                 ELSE [status |-> status,
                       body |-> [code |-> getErrorCode(status),
                                 message |-> IF exceptionResponse.message # NoMessage
                                             THEN exceptionResponse.message
                                             ELSE exception.message,
                                 details |-> exceptionResponse.details,
                                 timestamp |-> now, path |-> url]]
            ELSE [status |-> status,
                  body |-> [code |-> getErrorCode(status),
                            message |-> exception.message,
                            timestamp |-> now, path |-> url]]
    ELSE [status |-> 500,
          body |-> [code |-> "INTERNAL_SERVER_ERROR",
                    message |-> [isArray |-> FALSE, items |-> <<"Internal server error">>],
                    timestamp |-> now, path |-> url]]

\* what the exception classes of @nestjs/common hand to the filter:
\* new XException(message) answers getResponse() with an object that carries
\* the message
HttpException(status, text) ==
    [http |-> TRUE, status |-> status,
     response |-> [isObject |-> TRUE,
                   message |-> [isArray |-> FALSE, items |-> <<text>>],
                   details |-> NoDetails],
     message |-> [isArray |-> FALSE, items |-> <<text>>]]

\* the exception behind a failed service or controller call
exceptionOf(thrown) ==
    CASE thrown = "NotFound" -> HttpException(404, "not found")
      [] thrown = "Forbidden" -> HttpException(403, "Maximum 4 comments per user per announcement allowed")
      [] thrown = "BadRequest" -> HttpException(400, "x-user-id header is required")
      [] OTHER -> [http |-> FALSE, status |-> 0,
                   response |-> [isObject |-> FALSE, message |-> NoMessage,
                                 details |-> NoDetails],
                   message |-> [isArray |-> FALSE, items |-> <<thrown>>]]

----------------------------------------------------------------------------
(* Requests *)

Request(op, id, userId, arg) == [op |-> op, id |-> id, userId |-> userId, arg |-> arg]

\* one request handled to completion: the store and the id generator move to
\* what the handler left, the response is recorded; uuidv4 hands out no id
\* beyond maxId
Serve(req, out, maxId) ==
    /\ out.nextId <= maxId + 1
    /\ announcements' = out.store.announcements
    /\ comments' = out.store.comments
    /\ reactions' = out.store.reactions
    /\ reactionCounters' = out.store.reactionCounters
    /\ nextId' = out.nextId
    /\ last' = [op |-> req.op, id |-> req.id, userId |-> req.userId, arg |-> req.arg,
                status |-> out.status, value |-> out.value]
    /\ before' = Store
    /\ UNCHANGED now

\* a request that is not sent by the components
Handle(req, out, maxId) ==
    /\ Serve(req, out, maxId)
    /\ UNCHANGED client

AnnouncementIds == {announcements[i].id : i \in DOMAIN announcements}
CommentIds == {comments[i].id : i \in DOMAIN comments}
IdArgs == AnnouncementIds \cup UnknownIds
CommentIdArgs == CommentIds \cup UnknownIds
\* no cursor, or any id: of a comment, of a deleted comment, of something else,
\* or one never handed out
CursorArgs == (0..(nextId - 1)) \cup {NoCursor}

CreateDtos == [title : Titles, description : {None}]
UpdateDtos == [status : Statuses]
CommentDtos(authors) == [authorName : authors, text : Texts]
ReactionDtos == [type : ReactionTypes]

\* POST /announcements
PostAnnouncement(maxAnnouncements, maxId) ==
    /\ Len(announcements) < maxAnnouncements
    /\ \E dto \in CreateDtos :
          Handle(Request("create", 0, NoUser, dto), Controller_create(dto), maxId)

\* the If-None-Match headers a client sends: none, the etag of the list as it
\* is now, as it was before the last request, or of the empty list
IfNoneMatchHeaders ==
    {NoEtag, findAllWithSummary.etag, findAllWithSummaryIn(before).etag,
     md5(<<>>)}

\* GET /announcements
GetAnnouncements ==
    \E ifNoneMatch \in IfNoneMatchHeaders :
        Handle(Request("findAllWithSummary", 0, NoUser, ifNoneMatch),
               Controller_findAll(ifNoneMatch), nextId)

\* GET /announcements, answered with the plain list
ListAnnouncements ==
    \E req \in {Request("findAll", 0, NoUser, None)} :
        Handle(req, PlainController_findAll, nextId)

\* PATCH /announcements/:id
PatchAnnouncement ==
    \E id \in IdArgs, dto \in UpdateDtos :
        Handle(Request("update", id, NoUser, dto), Controller_update(id, dto), nextId)

\* POST /announcements/:id/comments
PostComment(maxId, authors, headers) ==
    \E id \in IdArgs, dto \in CommentDtos(authors), userId \in headers :
        Handle(Request("addComment", id, userId, dto),
               Controller_addComment(id, dto, userId), maxId)

\* GET /announcements/:id/comments
GetComments(maxLimit) ==
    \E id \in IdArgs, cursor \in CursorArgs, limit \in 0..maxLimit :
        Handle(Request("getComments", id, NoUser, [cursor |-> cursor, limit |-> limit]),
               Controller_getComments(id, cursor, limit), nextId)

\* DELETE /announcements/:id/comments/:commentId
DeleteComment(headers) ==
    \E id \in IdArgs, commentId \in CommentIdArgs, userId \in headers :
        Handle(Request("deleteComment", id, userId, commentId),
               Controller_deleteComment(id, commentId, userId), nextId)

\* GET /announcements/:id/user-reaction
GetUserReaction(headers) ==
    \E id \in IdArgs, userId \in headers :
        Handle(Request("getUserReaction", id, userId, None),
               Controller_getUserReaction(id, userId), nextId)

\* POST /announcements/:id/reactions
PostReaction(maxId, headers) ==
    \E id \in IdArgs, userId \in headers, dto \in ReactionDtos :
        Handle(Request("addReaction", id, userId, dto),
               Controller_addReaction(id, userId, dto), maxId)

\* DELETE /announcements/:id/reactions
DeleteReaction(headers) ==
    \E id \in IdArgs, userId \in headers :
        Handle(Request("removeReaction", id, userId, None),
               Controller_removeReaction(id, userId), nextId)

\* exceptions the filter is handed: HTTP exceptions of the statuses the filter
\* names and of two it does not, whose getResponse() is a string or an object
\* with or without message and details, and errors that are no HttpException
HttpStatuses == {400, 401, 403, 404, 413, 429, 500, 503}
Messages == {NoMessage,
             [isArray |-> FALSE, items |-> <<"m">>],
             [isArray |-> TRUE, items |-> <<"e1">>],
             [isArray |-> TRUE, items |-> <<"e1", "e2">>]}
Responses == {[isObject |-> FALSE, message |-> [isArray |-> FALSE, items |-> <<"m">>],
               details |-> NoDetails]}
             \cup [isObject : {TRUE}, message : Messages, details : {NoDetails, "d"}]
Thrown == {"NotFound", "Forbidden", "BadRequest", "TypeError"}
Exceptions == [http : {TRUE}, status : HttpStatuses, response : Responses,
               message : {[isArray |-> FALSE, items |-> <<"m">>]}]
              \cup {exceptionOf(thrown) : thrown \in Thrown}
Urls == {"/announcements", "/announcements/1/comments"}

\* an exception reaches the filter, which answers the request
CatchException ==
    \E exception \in Exceptions, url \in Urls :
        Handle(Request("catch", 0, NoUser, [exception |-> exception, url |-> url]),
               Return(Store, nextId, catch(exception, url)), nextId)

\* App.tsx fetches the user's reaction and renders the Reactions component
\* with it
MountReactions ==
    \E id \in AnnouncementIds :
        LET out == Controller_getUserReaction(id, getUserId)
        IN /\ Serve(Request("getUserReaction", id, getUserId, None), out, nextId)
           /\ client' = [client EXCEPT !.Reactions =
                            [announcementId |-> id,
                             localUserReaction |-> IF out.status = "ok" THEN out.value
                                                   ELSE None,
                             clicked |-> None]]

\* the user clicks one of the reaction buttons
ClickReaction(maxId) ==
    /\ client.Reactions.announcementId # 0
    /\ \E type \in ReactionTypes :
          LET id == client.Reactions.announcementId
              sent == handleReaction(id, client.Reactions.localUserReaction, type)
          IN /\ Serve(Request(sent.op, id, getUserId, sent.arg), sent.out, maxId)
             /\ client' = [client EXCEPT
                              !.Reactions.localUserReaction = sent.localUserReaction,
                              !.Reactions.clicked = type]

\* the Comments component is opened: the first page replaces what is shown
OpenComments(maxLimit) ==
    \E id \in AnnouncementIds, limit \in 1..maxLimit :
        LET fetched == fetchComments(id, limit, <<>>, NoCursor, 0)
        IN /\ Serve(Request("getComments", id, NoUser,
                            [cursor |-> NoCursor, limit |-> limit]),
                    Controller_getComments(id, NoCursor, limit), nextId)
           /\ client' = [client EXCEPT !.Comments =
                            [announcementId |-> id, limit |-> limit,
                             comments |-> fetched.comments,
                             nextCursor |-> fetched.nextCursor]]

\* "Load More": the page after nextCursor is appended to what is shown
LoadMoreComments ==
    /\ client.Comments.nextCursor # NoCursor
    /\ LET shown == client.Comments
           fetched == fetchComments(shown.announcementId, shown.limit, shown.comments,
                                    shown.nextCursor, 0)
       IN /\ Serve(Request("getComments", shown.announcementId, NoUser,
                           [cursor |-> shown.nextCursor, limit |-> shown.limit]),
                   Controller_getComments(shown.announcementId, shown.nextCursor,
                                          shown.limit), nextId)
          /\ client' = [client EXCEPT !.Comments.comments = fetched.comments,
                                      !.Comments.nextCursor = fetched.nextCursor]

\* the clock advances between requests
Tick ==
    /\ now < MaxTime
    /\ now' = now + 1
    /\ UNCHANGED <<announcements, comments, reactions, reactionCounters, nextId, last, before,
                   client>>

Init ==
    /\ announcements = <<>>
    /\ comments = <<>>
    /\ reactions = <<>>
    /\ reactionCounters = <<>>
    /\ nextId = 1
    /\ now = 0
    /\ last = [op |-> "init", id |-> 0, userId |-> NoUser, arg |-> None,
               status |-> "ok", value |-> None]
    /\ before = [announcements |-> <<>>, comments |-> <<>>,
                 reactions |-> <<>>, reactionCounters |-> <<>>]
    /\ client = [Reactions |-> [announcementId |-> 0, localUserReaction |-> None,
                                clicked |-> None],
                 Comments |-> [announcementId |-> 0, limit |-> 0, comments |-> <<>>,
                               nextCursor |-> NoCursor]]

\* every endpoint on one announcement, and creation; two announcements, two users
Next ==
    \/ PostAnnouncement(MaxAnnouncements, MaxId)
    \/ PatchAnnouncement
    \/ PostComment(MaxId, Authors, OneHeader)
    \/ GetComments(MaxLimit)
    \/ DeleteComment(OneHeader)
    \/ GetUserReaction(Headers)
    \/ PostReaction(MaxId, Headers)
    \/ DeleteReaction(Headers)
    \/ Tick

Spec == Init /\ [][Next]_vars

\* one announcement and one reacting user, with room for a fifth and a sixth
\* comment; all requests arrive at the same clock reading
NextQuota ==
    \/ PostAnnouncement(QuotaAnnouncements, QuotaMaxId)
    \/ PostComment(QuotaMaxId, Authors, OneHeader)
    \/ DeleteComment(OneHeader)
    \/ PostReaction(QuotaMaxId, OneHeader)
    \/ DeleteReaction(OneHeader)

SpecQuota == Init /\ [][NextQuota]_vars

\* the reaction endpoints alone, from both users, with the clock
NextReact ==
    \/ PostAnnouncement(ReactAnnouncements, ReactMaxId)
    \/ PostReaction(ReactMaxId, Headers)
    \/ DeleteReaction(Headers)
    \/ Tick

SpecReact == Init /\ [][NextReact]_vars

\* the global filter: exceptions of every shape arrive for either path, among
\* them the ones the endpoints throw
NextFilter ==
    \/ PostAnnouncement(ReactAnnouncements, ReactMaxId)
    \/ GetComments(MaxLimit)
    \/ DeleteReaction(Headers)
    \/ CatchException
    \/ Tick

SpecFilter == Init /\ [][NextFilter]_vars

\* one user at the Reactions component of one announcement, while another
\* user reacts through the endpoints
NextClick ==
    \/ PostAnnouncement(ClickAnnouncements, ClickMaxId)
    \/ MountReactions
    \/ ClickReaction(ClickMaxId)
    \/ PostReaction(ClickMaxId, {"u2"})
    \/ DeleteReaction({"u2"})
    \/ Tick

SpecClick == Init /\ [][NextClick]_vars

\* the Comments component reads page after page while comments of the
\* announcement are posted and deleted
NextTraverse ==
    \/ PostAnnouncement(TraverseAnnouncements, TraverseMaxId)
    \/ PostComment(TraverseMaxId, OneAuthor, {NoUser})
    \/ DeleteComment({"u1"})
    \/ OpenComments(MaxLimit)
    \/ LoadMoreComments
    \/ Tick

SpecTraverse == Init /\ [][NextTraverse]_vars

\* the comment endpoints alone: comments of one author posted without a user
\* id, deleted by u1, and read page by page
NextPage ==
    \/ PostAnnouncement(PageAnnouncements, PageMaxId)
    \/ PostComment(PageMaxId, OneAuthor, {NoUser})
    \/ DeleteComment({"u1"})
    \/ GetComments(MaxLimit)
    \/ Tick

SpecPage == Init /\ [][NextPage]_vars

\* the two listings of GET /announcements and everything a summary depends on:
\* status changes, comments of one author, reactions of both users, the clock
NextList ==
    \/ PostAnnouncement(SummaryAnnouncements, SummaryMaxId)
    \/ GetAnnouncements
    \/ ListAnnouncements
    \/ PatchAnnouncement
    \/ PostComment(SummaryMaxId, OneAuthor, {NoUser})
    \/ DeleteComment({"u1"})
    \/ PostReaction(SummaryMaxId, Users)
    \/ DeleteReaction(Users)
    \/ Tick

SpecList == Init /\ [][NextList]_vars

----------------------------------------------------------------------------
(* State functions used by the properties *)

IdsOf(seq) == {seq[i].id : i \in DOMAIN seq}

\* the rows of user u on announcement a
RowsOf(rs, a, u) == SelectSeq(rs, LAMBDA r : r.announcementId = a /\ r.userId = u)

\* the rows of type t on announcement a
RowsOfType(rs, a, t) == SelectSeq(rs, LAMBDA r : r.announcementId = a /\ r.type = t)

UserIdsOf(rs) == {rs[i].userId : i \in DOMAIN rs}

\* the counter set of (a, t), empty when a has no counter entry
CounterSet(counters, a, t) == IF a \in DOMAIN counters THEN counters[a][t] ELSE {}

\* what a following getUserReaction(a, u) answers
UserReaction(a, u) == getUserReaction(a, u).value

ReactionAnnouncements ==
    AnnouncementIds \cup DOMAIN reactionCounters
        \cup {reactions[i].announcementId : i \in DOMAIN reactions}

\* the last request reached the service with a user id
ByUser == last.userId # NoUser

----------------------------------------------------------------------------
(* C1: in every reachable state the reactions collection holds at most one
   Reaction row for each (announcementId, userId) pair. *)
C1_OneRowPerUser ==
    \A i, j \in DOMAIN reactions :
        (reactions[i].announcementId = reactions[j].announcementId
            /\ reactions[i].userId = reactions[j].userId) => i = j

\* a user who already had a row on the announcement has just set a reaction again
C1_Witness ==
    /\ last.op = "addReaction" /\ last.status = "ok"
    /\ Len(RowsOf(before.reactions, last.id, last.userId)) = 1
    /\ Len(RowsOf(reactions, last.id, last.userId)) = 1

(* C2: in every reachable state, for every announcement a and reaction type t,
   the counter set of (a, t) (empty when a has no counter entry) holds exactly
   the userIds of the Reaction rows of a with type t, its size is the number of
   those rows, and no userId is in two type-sets of one announcement. *)
C2_CountersMatchRows ==
    \A a \in ReactionAnnouncements :
        /\ \A t \in ReactionTypes :
              /\ CounterSet(reactionCounters, a, t) = UserIdsOf(RowsOfType(reactions, a, t))
              /\ Cardinality(CounterSet(reactionCounters, a, t))
                    = Len(RowsOfType(reactions, a, t))
        /\ \A t1, t2 \in ReactionTypes :
              t1 # t2 => CounterSet(reactionCounters, a, t1)
                            \cap CounterSet(reactionCounters, a, t2) = {}

\* one of two reacting users has just removed their reaction
C2_Witness ==
    /\ last.op = "removeReaction" /\ last.status = "ok"
    /\ Len(before.reactions) = 2
    /\ Len(reactions) = 1

(* C3: for every known announcement a, user u and types T1 # T2: when
   addReaction(a,u,T2) is called after addReaction(a,u,T1) (as the request just
   before it, or earlier with u still holding T1), then after it
   getUserReaction(a,u) answers T2, the T1 counter set of a does not contain u,
   the T2 counter set contains u, and exactly one Reaction row exists for
   (a,u). *)
C3_SwitchMovesPointer ==
    [][ \A a \in AnnouncementIds, u \in Users, T1, T2 \in ReactionTypes :
          ( /\ T1 # T2
            /\ now' = now      \* a request, not a tick of the clock
            /\ last'.op = "addReaction" /\ last'.status = "ok"
            /\ last'.id = a /\ last'.userId = u /\ last'.arg.type = T2
            /\ \/ /\ last.op = "addReaction" /\ last.status = "ok"
                  /\ last.id = a /\ last.userId = u /\ last.arg.type = T1
               \/ /\ RowsOf(reactions, a, u) # <<>>
                  /\ RowsOf(reactions, a, u)[1].type = T1 )
          => /\ getUserReaction(a, u)'.status = "ok"
             /\ UserReaction(a, u)' = T2
             /\ u \notin CounterSet(reactionCounters', a, T1)
             /\ u \in CounterSet(reactionCounters', a, T2)
             /\ Len(RowsOf(reactions', a, u)) = 1 ]_vars

\* the user held another type on the announcement when the reaction was set
C3_Witness ==
    /\ last.op = "addReaction" /\ last.status = "ok"
    /\ LET old == RowsOf(before.reactions, last.id, last.userId)
       IN old # <<>> /\ old[1].type # last.arg.type

(* C4: addReaction(a,u,T) when u's current reaction on a is already T is not a
   toggle-off: afterwards u still holds T on a, the three counter sets of a
   have the sizes they had, and the row of (a,u) is a new row: its id is the
   freshly generated one, different from the old row's, and its createdAt is
   the clock reading of this call. *)
C4_SameTypeReplacesRow ==
    [][ \A a \in AnnouncementIds, u \in Users, T \in ReactionTypes :
          ( /\ now' = now      \* a request, not a tick of the clock
            /\ last'.op = "addReaction" /\ last'.status = "ok"
            /\ last'.id = a /\ last'.userId = u /\ last'.arg.type = T
            /\ RowsOf(reactions, a, u) # <<>>
            /\ RowsOf(reactions, a, u)[1].type = T )
          => LET old == RowsOf(reactions, a, u)[1]
                 new == RowsOf(reactions', a, u)
             IN /\ UserReaction(a, u)' = T
                /\ \A t \in ReactionTypes :
                      Cardinality(CounterSet(reactionCounters', a, t))
                          = Cardinality(CounterSet(reactionCounters, a, t))
                /\ Len(new) = 1
                /\ new[1].id # old.id
                /\ new[1].id \notin IdsOf(reactions)
                /\ new[1].createdAt = now
                /\ new[1].createdAt >= old.createdAt
                /\ new[1] = last'.value ]_vars

\* the reaction was set to the type the user already held, at a later clock reading
C4_Witness ==
    /\ last.op = "addReaction" /\ last.status = "ok"
    /\ LET old == RowsOf(before.reactions, last.id, last.userId)
       IN /\ old # <<>>
          /\ old[1].type = last.arg.type
          /\ old[1].createdAt < last.value.createdAt

(* C5: removeReaction(a,u) fails with NotFound when a is unknown or u has no
   reaction on a; when u has a reaction it succeeds, deletes the Reaction row
   of (a,u), removes u from that type's counter set, and a following
   getUserReaction(a,u) answers none. *)
C5_RemoveReaction ==
    (last.op = "removeReaction" /\ ByUser) =>
        LET a == last.id
            u == last.userId
            old == RowsOf(before.reactions, a, u)
        IN IF a \notin IdsOf(before.announcements) \/ old = <<>>
           THEN last.status = "NotFound"
           ELSE /\ last.status = "ok"
                /\ RowsOf(reactions, a, u) = <<>>
                /\ reactions = SelectSeq(before.reactions, LAMBDA r : r # old[1])
                /\ u \notin CounterSet(reactionCounters, a, old[1].type)
                /\ getUserReaction(a, u).status = "ok"
                /\ UserReaction(a, u) = None

\* a user's reaction has just been removed
C5_Witness ==
    /\ last.op = "removeReaction" /\ last.status = "ok"
    /\ RowsOf(before.reactions, last.id, last.userId) # <<>>

(* C6 as stated: querying a user's reaction (the service and the endpoint
   GET /announcements/:id/user-reaction) fails with NotFound exactly when the
   announcement is unknown; for a known announcement it answers the user's
   current reaction type, or none, and it changes no stored state. *)
C6_Original ==
    last.op = "getUserReaction" =>
        /\ (last.status = "NotFound") <=> (last.id \notin AnnouncementIds)
        /\ last.id \in AnnouncementIds =>
              /\ last.status = "ok"
              /\ LET rows == RowsOf(reactions, last.id, last.userId)
                 IN last.value = IF rows = <<>> THEN None ELSE rows[1].type
        /\ Store = before

(* C6 amended: with a non-empty x-user-id the query fails with NotFound exactly
   when the announcement is unknown and otherwise answers the user's current
   reaction type, or none; without the header the endpoint answers none without
   looking at the announcement, known or not; in every case it changes no
   stored state. *)
C6_UserReactionQuery ==
    last.op = "getUserReaction" =>
        /\ Store = before
        /\ IF ByUser
           THEN /\ (last.status = "NotFound") <=> (last.id \notin AnnouncementIds)
                /\ last.id \in AnnouncementIds =>
                      /\ last.status = "ok"
                      /\ LET rows == RowsOf(reactions, last.id, last.userId)
                         IN last.value = IF rows = <<>> THEN None ELSE rows[1].type
           ELSE last.status = "ok" /\ last.value = None

\* the query answered the reaction the user holds on one of two announcements
C6_Witness ==
    /\ last.op = "getUserReaction" /\ ByUser
    /\ last.status = "ok"
    /\ last.value \in ReactionTypes
    /\ Len(announcements) = 2

\* the comments of one author on one announcement
CommentsBy(cs, a, author) ==
    SelectSeq(cs, LAMBDA c : c.announcementId = a /\ c.authorName = author)

(* C7 as stated: addComment on a known announcement fails with Forbidden
   whenever the existing comments of the same authorName on it number >= 4 and
   succeeds when they number < 4, so no reachable state has more than 4
   comments of one authorName on one announcement. *)
C7_Original ==
    /\ (last.op = "addComment" /\ last.id \in IdsOf(before.announcements)) =>
          IF Len(CommentsBy(before.comments, last.id, last.arg.authorName)) >= CommentQuota
          THEN last.status = "Forbidden"
          ELSE last.status = "ok"
    /\ \A a \in AnnouncementIds, author \in Authors :
          Len(CommentsBy(comments, a, author)) <= CommentQuota

(* C7 amended: addComment on a known announcement with a non-empty x-user-id
   fails with Forbidden whenever the existing comments of the same authorName
   on it number >= 4 and succeeds when they number < 4 (the 4th succeeds, the
   5th fails); without the header the quota is not checked and the call
   succeeds; a successful call appends exactly the new comment, so more than 4
   comments of one authorName are stored only through requests without the
   header. *)
C7_CommentQuota ==
    (last.op = "addComment" /\ last.id \in IdsOf(before.announcements)) =>
        LET n == Len(CommentsBy(before.comments, last.id, last.arg.authorName))
        IN /\ IF ByUser /\ n >= CommentQuota
              THEN last.status = "Forbidden" /\ comments = before.comments
              ELSE /\ last.status = "ok"
                   /\ comments = Append(before.comments, last.value)
                   /\ Len(CommentsBy(comments, last.id, last.arg.authorName)) = n + 1
           /\ (ByUser /\ last.status = "ok") =>
                 Len(CommentsBy(comments, last.id, last.arg.authorName)) <= CommentQuota

\* a fifth comment of an author who has four was refused
C7_Witness ==
    /\ last.op = "addComment" /\ ByUser
    /\ last.status = "Forbidden"
    /\ Len(CommentsBy(comments, last.id, last.arg.authorName)) = CommentQuota

AnnouncementOps == {"update", "addComment", "getComments", "deleteComment",
                    "getUserReaction", "addReaction", "removeReaction"}

\* the last request was passed on to the service: the controller answers
\* these four itself when the x-user-id header is missing
ReachedService ==
    last.op \in {"deleteComment", "getUserReaction", "addReaction", "removeReaction"}
        => ByUser

(* C8: every service operation that takes an announcement id (update,
   addComment, getComments, deleteComment, getUserReaction, addReaction,
   removeReaction) fails with NotFound when no announcement has that id, and
   then leaves announcements, comments, reactions and reaction counters
   unchanged. *)
C8_UnknownAnnouncement ==
    ( /\ last.op \in AnnouncementOps
      /\ ReachedService
      /\ last.id \notin IdsOf(before.announcements) )
    => /\ last.status = "NotFound"
       /\ announcements = before.announcements
       /\ comments = before.comments
       /\ reactions = before.reactions
       /\ reactionCounters = before.reactionCounters

\* a reaction request for an unknown announcement failed on a store that holds
\* an announcement and a reaction
C8_Witness ==
    /\ last.op = "addReaction" /\ ByUser
    /\ last.id \notin AnnouncementIds
    /\ last.status = "NotFound"
    /\ reactions # <<>>

\* the failures C9 is about
C9_Failed ==
    \/ last.op = "addComment" /\ last.status = "Forbidden"
    \/ /\ last.op = "deleteComment" /\ last.status = "NotFound"
       /\ last.id \in IdsOf(before.announcements)
    \/ /\ last.op = "removeReaction" /\ last.status = "NotFound"
       /\ last.id \in IdsOf(before.announcements)

(* C9 as stated: whenever addComment fails with Forbidden, deleteComment fails
   because the comment is unknown, or removeReaction fails because the user has
   no reaction, the whole store (announcements, comments, reactions and the
   reactionCounters map) is exactly as it was before the call. *)
C9_Original == C9_Failed => Store = before

(* C9 amended: in those three failures announcements, comments and reactions
   are exactly as before the call and every counter set has the members it had
   (an announcement without a counter entry counting as three empty sets); the
   reactionCounters map itself may differ in one way: a failed removeReaction
   leaves an entry of three empty sets for its announcement when there was
   none. *)
C9_FailureLeavesStore ==
    C9_Failed =>
        /\ announcements = before.announcements
        /\ comments = before.comments
        /\ reactions = before.reactions
        /\ \A a \in DOMAIN reactionCounters \cup DOMAIN before.reactionCounters :
              \A t \in ReactionTypes :
                  CounterSet(reactionCounters, a, t) = CounterSet(before.reactionCounters, a, t)
        /\ \/ reactionCounters = before.reactionCounters
           \/ /\ last.op = "removeReaction"
              /\ last.id \notin DOMAIN before.reactionCounters
              /\ reactionCounters
                    = initializeAnnouncementCounters(before.reactionCounters, last.id)

\* a fifth comment was refused while the store holds a reaction and its counters
C9_Witness ==
    /\ last.op = "addComment" /\ last.status = "Forbidden"
    /\ reactions # <<>>
    /\ DOMAIN reactionCounters # {}

(* C10: deleteComment(a, c, u) fails with NotFound unless a comment with id c
   exists whose announcementId is a (a comment of another announcement is
   NotFound, and nothing is removed); on success exactly that comment is
   removed and every other comment, every reaction and every announcement is
   unchanged. *)
C10_DeleteComment ==
    (last.op = "deleteComment" /\ ByUser) =>
        LET target == SelectSeq(before.comments, LAMBDA c :
                          c.id = last.arg /\ c.announcementId = last.id)
        IN IF target = <<>>
           THEN last.status = "NotFound" /\ Store = before
           ELSE /\ last.status = "ok"
                /\ Len(target) = 1
                /\ comments = SelectSeq(before.comments, LAMBDA c : c # target[1])
                /\ Len(comments) = Len(before.comments) - 1
                /\ announcements = before.announcements
                /\ reactions = before.reactions
                /\ reactionCounters = before.reactionCounters

\* one of two comments has just been deleted
C10_Witness ==
    /\ last.op = "deleteComment" /\ last.status = "ok"
    /\ Len(before.comments) = 2
    /\ Len(comments) = 1

\* a comment id of another announcement was given and refused
C10_WitnessOtherAnnouncement ==
    /\ last.op = "deleteComment" /\ last.status = "NotFound"
    /\ last.id \in AnnouncementIds
    /\ last.arg \in CommentIds

(* C11: the outcome of deleteComment(a, c, userId) does not depend on userId:
   from every reachable state, for every announcement id a, comment id c and
   any two non-empty user ids, the call (and the DELETE endpoint in front of
   it) has the same result and leaves the same store. *)
C11_DeleteIgnoresUser ==
    \A a \in IdArgs, c \in CommentIdArgs, u1 \in Users, u2 \in Users :
        /\ deleteComment(a, c, u1) = deleteComment(a, c, u2)
        /\ Controller_deleteComment(a, c, u1) = Controller_deleteComment(a, c, u2)

\* a comment has been deleted and another one is still there to delete
C11_Witness ==
    /\ last.op = "deleteComment" /\ last.status = "ok"
    /\ comments # <<>>
    /\ \E u \in Users : deleteComment(comments[1].announcementId, comments[1].id, u).status = "ok"

\* the comments of announcement a, in store order
CommentsOf(cs, a) == SelectSeq(cs, LAMBDA c : c.announcementId = a)

\* own[i] comes before own[j] newest first, insertion order deciding a tie
Precedes(own, i, j) ==
    \/ own[i].createdAt > own[j].createdAt
    \/ own[i].createdAt = own[j].createdAt /\ i < j

\* the place of own[j] in that order
Rank(own, j) == 1 + Cardinality({i \in DOMAIN own : Precedes(own, i, j)})

NewestFirst(own) ==
    [k \in 1..Len(own) |-> own[CHOOSE j \in DOMAIN own : Rank(own, j) = k]]

\* the place in seq of the element with this id, 0 when there is none
PlaceOf(seq, id) ==
    IF \E i \in DOMAIN seq : seq[i].id = id
    THEN CHOOSE i \in DOMAIN seq : seq[i].id = id
    ELSE 0

Descending(seq) ==
    \A i, j \in DOMAIN seq : i < j => seq[i].createdAt >= seq[j].createdAt

(* C12: for a known announcement, a cursor that is the id of one of its
   comments (or no cursor) and a limit L >= 1, getComments answers the comments
   of that announcement ordered by createdAt descending, restricted to those
   strictly after the cursor comment in that order (all of them without a
   cursor), truncated to the first L; nextCursor is the id of the last returned
   comment when exactly L are returned and absent otherwise; the store is
   untouched. *)
C12_Page ==
    ( /\ last.op = "getComments"
      /\ last.id \in AnnouncementIds
      /\ last.arg.limit >= 1
      /\ \/ last.arg.cursor = NoCursor
         \/ last.arg.cursor \in IdsOf(CommentsOf(comments, last.id)) )
    => LET ordered == NewestFirst(CommentsOf(comments, last.id))
           k == IF last.arg.cursor = NoCursor THEN 0
                ELSE PlaceOf(ordered, last.arg.cursor)
           rest == SubSeq(ordered, k + 1, Len(ordered))
           L == last.arg.limit
           page == SubSeq(rest, 1, IF L < Len(rest) THEN L ELSE Len(rest))
       IN /\ last.status = "ok"
          /\ Descending(ordered)
          /\ last.value.comments = page
          /\ last.value.nextCursor = IF Len(page) = L THEN page[L].id ELSE NoCursor
          /\ Store = before

\* a full page was read after the cursor, from comments of different times
C12_Witness ==
    /\ last.op = "getComments" /\ last.status = "ok"
    /\ last.arg.cursor \in IdsOf(CommentsOf(comments, last.id))
    /\ last.arg.limit = 2
    /\ Len(last.value.comments) = 2
    /\ last.value.nextCursor # NoCursor
    /\ last.value.comments[1].createdAt > last.value.comments[2].createdAt

(* C13: with no comment added or deleted in between, reading a known
   announcement's comments from no cursor and passing each returned nextCursor
   on until none is returned shows every comment of the announcement exactly
   once, newest first, whatever the number of comments and for every limit
   L >= 1; the last response carries no nextCursor. *)
C13_AllPages ==
    \A a \in AnnouncementIds, L \in 1..MaxLimit :
        LET loaded == loadAllComments(a, L)
            own == CommentsOf(comments, a)
        IN /\ loaded.nextCursor = NoCursor
           /\ loaded.comments = NewestFirst(own)
           /\ Len(loaded.comments) = Len(own)
           /\ \A i, j \in DOMAIN loaded.comments :
                 loaded.comments[i].id = loaded.comments[j].id => i = j
           /\ IdsOf(loaded.comments) = IdsOf(own)
           /\ Descending(loaded.comments)
           /\ loaded.pages = (Len(own) \div L) + 1

\* three comments of different times are read in a full page and a shorter one
C13_Witness ==
    \E a \in AnnouncementIds :
        /\ Len(CommentsOf(comments, a)) = 3
        /\ ~Descending(CommentsOf(comments, a))
        /\ loadAllComments(a, 2).pages = 2
        /\ Len(loadAllComments(a, 2).comments) = 3

\* the last request read a known announcement's comments with a limit >= 1 and
\* a cursor that is the id of none of that announcement's comments
C14_CursorMiss ==
    /\ last.op = "getComments"
    /\ last.id \in AnnouncementIds
    /\ last.arg.limit >= 1
    /\ last.arg.cursor # NoCursor
    /\ last.arg.cursor \notin IdsOf(CommentsOf(comments, last.id))

(* C14: when getComments is given a cursor that matches no comment of the
   announcement (an id never handed out, the id of a deleted comment, or of a
   comment of another announcement), it raises no error and answers the same
   page as the call without a cursor: the first `limit` comments, newest
   first. *)
C14_UnmatchedCursor ==
    C14_CursorMiss =>
        LET first == getComments(last.id, NoCursor, last.arg.limit)
            ordered == NewestFirst(CommentsOf(comments, last.id))
            L == last.arg.limit
            page == SubSeq(ordered, 1, IF L < Len(ordered) THEN L ELSE Len(ordered))
        IN /\ last.status = "ok"
           /\ first.status = "ok"
           /\ last.value = first.value
           /\ last.value.comments = page
           /\ Store = before

\* the cursor was a comment of the other announcement
C14_Witness ==
    /\ C14_CursorMiss
    /\ last.arg.cursor \in CommentIds
    /\ last.value.comments # <<>>

\* the cursor was the id of a comment that has been deleted
C14_WitnessDeleted ==
    /\ C14_CursorMiss
    /\ last.arg.cursor \in 1..(nextId - 1)
    /\ last.arg.cursor \notin CommentIds \cup AnnouncementIds
    /\ last.value.comments # <<>>

\* the greatest element of a non-empty set of times
Latest(times) == CHOOSE x \in times : \A y \in times : x >= y

\* the createdAt of everything in seq that belongs to announcement a
TimesOf(seq, a) == {seq[i].createdAt : i \in {j \in DOMAIN seq : seq[j].announcementId = a}}

\* the summary list is right about the store it was computed from
SummariesMatch(summaries) ==
    \A i \in DOMAIN summaries :
        LET sm == summaries[i]
        IN \E k \in DOMAIN announcements :
              LET a == announcements[k]
              IN /\ sm.id = a.id /\ sm.title = a.title /\ sm.description = a.description
                 /\ sm.status = a.status /\ sm.createdAt = a.createdAt
                 /\ sm.commentCount = Len(CommentsOf(comments, a.id))
                 /\ \A t \in ReactionTypes :
                       sm.reactions[t]
                           = Cardinality(UserIdsOf(RowsOfType(reactions, a.id, t)))
                 /\ sm.lastActivityAt
                       = Latest({a.createdAt} \cup TimesOf(comments, a.id)
                                    \cup TimesOf(reactions, a.id))

(* C15: in every reachable state each summary of findAllWithSummary (and of
   the body of a 200 answer of GET /announcements) has commentCount equal to
   the number of stored comments of its announcement, reactions.up/down/heart
   equal to the number of distinct users holding that reaction on it, and
   lastActivityAt equal to the latest of the announcement's createdAt, its
   comments' createdAt and its reactions' createdAt. *)
C15_Summaries ==
    /\ SummariesMatch(findAllWithSummary.announcements)
    /\ (last.op = "findAllWithSummary" /\ last.value.code = 200) => SummariesMatch(last.value.body)

\* a listing showed an announcement with one comment and one heart, given
\* after the announcement was created
C15_Witness ==
    /\ last.op = "findAllWithSummary" /\ last.value.code = 200
    /\ \E i \in DOMAIN last.value.body :
          LET sm == last.value.body[i]
          IN /\ sm.commentCount = 1
             /\ sm.reactions["heart"] = 1 /\ sm.reactions["up"] = 0
             /\ sm.lastActivityAt > sm.createdAt

\* one summary per stored announcement, none followed by one of a strictly
\* later lastActivityAt
ListedInOrder(summaries) ==
    /\ Len(summaries) = Len(announcements)
    /\ IdsOf(summaries) = AnnouncementIds
    /\ \A i, j \in DOMAIN summaries : summaries[i].id = summaries[j].id => i = j
    /\ \A i, j \in DOMAIN summaries :
          i < j => summaries[i].lastActivityAt >= summaries[j].lastActivityAt

(* C16: the list of findAllWithSummary (and the body of a 200 answer of
   GET /announcements) holds exactly one summary per stored announcement and
   is ordered by lastActivityAt descending: no summary is followed by one with
   a strictly later lastActivityAt. *)
C16_ListOrder ==
    /\ ListedInOrder(findAllWithSummary.announcements)
    /\ (last.op = "findAllWithSummary" /\ last.value.code = 200) => ListedInOrder(last.value.body)

\* two announcements were listed, the one stored second first
C16_Witness ==
    /\ last.op = "findAllWithSummary" /\ last.value.code = 200
    /\ Len(last.value.body) = 2
    /\ last.value.body[1].id = announcements[2].id
    /\ last.value.body[1].lastActivityAt > last.value.body[2].lastActivityAt

\* the operations the summary list is computed from
MutatingOps == {"create", "update", "addComment", "deleteComment",
                "addReaction", "removeReaction"}

(* C17 as stated: ETag determinism: two calls of findAllWithSummary with no
   mutating operation (create, update, addComment, deleteComment, addReaction,
   removeReaction) between them return the identical etag and the identical
   ordered list.  Step by step: no step other than a call of one of those six
   operations changes what findAllWithSummary returns, and a call of
   findAllWithSummary answered with 200 returns just that. *)
C17_Original ==
    [][ (now' # now \/ last'.op \notin MutatingOps) =>
          /\ findAllWithSummary' = findAllWithSummary
          /\ (now' = now /\ last'.op = "findAllWithSummary" /\ last'.value.code = 200) =>
                /\ last'.value.body = findAllWithSummary.announcements
                /\ last'.value.ETag = findAllWithSummary.etag ]_vars

\* the last request changed the state of its announcement: a new comment, a
\* new reaction, or a status other than the one it had
C18_Mutation ==
    /\ last.status = "ok"
    /\ \/ last.op \in {"addComment", "addReaction"}
       \/ /\ last.op = "update"
          /\ \E i \in DOMAIN before.announcements :
                /\ before.announcements[i].id = last.id
                /\ before.announcements[i].status # last.arg.status

(* C18 as stated: any mutation of an announcement's state (a new comment, a
   new reaction, a status change) changes the etag returned by
   findAllWithSummary: the etag after the mutation differs from the etag
   before it. *)
C18_Original ==
    C18_Mutation => findAllWithSummary.etag # findAllWithSummaryIn(before).etag

(* C19: GET /announcements answers 304 with no body exactly when the request's
   If-None-Match header equals the etag of the current summary list; in every
   other case it answers 200 with the summary list and an ETag header equal to
   the etag computed for that same list; the store is untouched. *)
C19_ConditionalGet ==
    last.op = "findAllWithSummary" =>
        /\ last.status = "ok"
        /\ Store = before
        /\ (last.value.code = 304) <=> (last.arg = findAllWithSummary.etag)
        /\ IF last.value.code = 304
           THEN last.value.body = <<>> /\ last.value.ETag = NoEtag
           ELSE /\ last.value.code = 200
                /\ last.value.body = findAllWithSummary.announcements
                /\ last.value.ETag = md5(dataForHash(last.value.body))

\* the client's etag was that of the list of one announcement: 304
C19_Witness ==
    /\ last.op = "findAllWithSummary"
    /\ last.value.code = 304
    /\ announcements # <<>>

\* the client's etag was out of date: 200 with the new list
C19_WitnessStale ==
    /\ last.op = "findAllWithSummary"
    /\ last.arg # NoEtag
    /\ last.value.code = 200
    /\ last.value.body # <<>>

\* the stored status of the announcement with this id
StatusOf(anns, id) == anns[CHOOSE i \in DOMAIN anns : anns[i].id = id].status

(* C20: for every stored announcement a and status s in {active, closed},
   update(a.id, s) returns a with status s and changes nothing else: no other
   announcement, no other field of a, no comment and no reaction; no request
   other than an update of a changes a's status, and every listing (plain or
   with summaries) shows each announcement with its stored status, so a is
   listed with status s until the next update of a. *)
C20_Update ==
    [][ /\ \A a \in AnnouncementIds :
              IF now' = now /\ last'.op = "update" /\ last'.id = a
              THEN LET i == CHOOSE k \in DOMAIN announcements : announcements[k].id = a
                       s == last'.arg.status
                   IN /\ last'.status = "ok"
                      /\ last'.value = [announcements[i] EXCEPT !.status = s]
                      /\ announcements' = [announcements EXCEPT ![i].status = s]
                      /\ StatusOf(announcements', a) = s
                      /\ comments' = comments
                      /\ reactions' = reactions
                      /\ reactionCounters' = reactionCounters
              ELSE StatusOf(announcements', a) = StatusOf(announcements, a)
        /\ (now' = now /\ last'.op = "findAll") =>
              \A k \in DOMAIN last'.value :
                  last'.value[k].status = StatusOf(announcements, last'.value[k].id)
        /\ (now' = now /\ last'.op = "findAllWithSummary" /\ last'.value.code = 200) =>
              \A k \in DOMAIN last'.value.body :
                  last'.value.body[k].status
                      = StatusOf(announcements, last'.value.body[k].id) ]_vars

\* one of two announcements was closed while a comment or a reaction is stored
C20_Witness ==
    /\ last.op = "update" /\ last.status = "ok"
    /\ last.arg.status = "closed"
    /\ StatusOf(before.announcements, last.id) = "active"
    /\ Len(announcements) = 2
    /\ comments # <<>> \/ reactions # <<>>

\* a listing with summaries showed a closed announcement next to an active one
C20_WitnessListed ==
    /\ last.op = "findAllWithSummary" /\ last.value.code = 200
    /\ Len(last.value.body) = 2
    /\ last.value.body[1].status = "closed"
    /\ last.value.body[2].status = "active"

(* C21: create always succeeds and adds exactly one announcement, with status
   active and an id different from every existing announcement id; afterwards
   announcements are never removed and their id, title, description and
   createdAt never change: status is the only field that can change, and only
   through update of that announcement. *)
C21_Create ==
    [][ /\ (now' = now /\ last'.op = "create") =>
              /\ last'.status = "ok"
              /\ announcements' = Append(announcements, last'.value)
              /\ last'.value.status = "active"
              /\ last'.value.id \notin AnnouncementIds
              /\ last'.value.title = last'.arg.title
              /\ last'.value.description = last'.arg.description
              /\ last'.value.createdAt = now
        /\ ~(now' = now /\ last'.op = "create") => Len(announcements') = Len(announcements)
        /\ \A i \in DOMAIN announcements :
              \E j \in DOMAIN announcements' :
                  /\ announcements'[j].id = announcements[i].id
                  /\ announcements'[j].title = announcements[i].title
                  /\ announcements'[j].description = announcements[i].description
                  /\ announcements'[j].createdAt = announcements[i].createdAt
                  /\ announcements'[j].status # announcements[i].status =>
                        /\ now' = now
                        /\ last'.op = "update" /\ last'.id = announcements[i].id
        /\ \A i, j \in DOMAIN announcements' :
              announcements'[i].id = announcements'[j].id => i = j ]_vars

\* a second announcement was created next to a closed one with a comment or a
\* reaction
C21_Witness ==
    /\ last.op = "create" /\ last.status = "ok"
    /\ Len(before.announcements) = 1
    /\ before.announcements[1].status = "closed"
    /\ Len(announcements) = 2
    /\ comments # <<>> \/ reactions # <<>>

(* C22: findAll returns every stored announcement exactly once, ordered by
   createdAt descending (newest first). *)
C22_FindAll ==
    last.op = "findAll" =>
        /\ last.status = "ok"
        /\ Len(last.value) = Len(before.announcements)
        /\ \A i \in DOMAIN before.announcements :
              \E j \in DOMAIN last.value : last.value[j] = before.announcements[i]
        /\ \A i, j \in DOMAIN last.value : last.value[i].id = last.value[j].id => i = j
        /\ Descending(last.value)

\* two announcements stored oldest first were listed newest first
C22_Witness ==
    /\ last.op = "findAll"
    /\ Len(before.announcements) = 2
    /\ before.announcements[1].createdAt < before.announcements[2].createdAt
    /\ last.value[1] = before.announcements[2]

\* the endpoints that require the x-user-id header
HeaderOps == {"deleteComment", "addReaction", "removeReaction"}

(* C23: the delete-comment, add/switch-reaction and remove-reaction endpoints
   reject every request without an x-user-id header with BadRequest (400)
   before calling the service, so the store is unchanged by such a request,
   whether or not the announcement exists. *)
C23_HeaderRequired ==
    (last.op \in HeaderOps /\ last.userId = NoUser) =>
        /\ last.status = "BadRequest"
        /\ Store = before

\* a remove-reaction request without the header came for a known announcement
\* that has no counter entry, which the service would have added
C23_Witness ==
    /\ last.op = "removeReaction" /\ last.userId = NoUser
    /\ last.id \in AnnouncementIds
    /\ last.id \notin DOMAIN reactionCounters

\* a request without the header came for an unknown announcement
C23_WitnessUnknown ==
    /\ last.op \in HeaderOps /\ last.userId = NoUser
    /\ last.id \notin AnnouncementIds
    /\ announcements # <<>>

----------------------------------------------------------------------------
(* C24 *)

SpecCodes == {"VALIDATION_ERROR", "BAD_REQUEST", "FORBIDDEN", "NOT_FOUND",
              "TOO_MANY_REQUESTS", "INTERNAL_SERVER_ERROR"}

\* the mappings the claim states: NotFound, Forbidden, BadRequest (a
\* validation error when its message is a list), and non-HTTP exceptions
C24_Mappings(exception, response) ==
    /\ ~exception.http =>
          response.body.code = "INTERNAL_SERVER_ERROR" /\ response.status = 500
    /\ exception.http => response.status = exception.status
    /\ (exception.http /\ exception.status = 404) => response.body.code = "NOT_FOUND"
    /\ (exception.http /\ exception.status = 403) => response.body.code = "FORBIDDEN"
    /\ (exception.http /\ exception.status = 400) =>
          response.body.code =
              IF exception.response.isObject /\ exception.response.message.isArray
              THEN "VALIDATION_ERROR" ELSE "BAD_REQUEST"
    /\ response.body.code = "VALIDATION_ERROR" =>
          exception.http /\ exception.status = 400
    /\ response.body.timestamp <= now

\* the response the filter gives to a failed request of an endpoint
C24_Failed == last.op # "catch" /\ last.status \in Thrown

\* C24 as stated: every error response of the global exception filter has a
\* code among VALIDATION_ERROR, BAD_REQUEST, FORBIDDEN, NOT_FOUND,
\* TOO_MANY_REQUESTS and INTERNAL_SERVER_ERROR, with NotFound mapped to
\* NOT_FOUND, Forbidden to FORBIDDEN, BadRequest to BAD_REQUEST
\* (VALIDATION_ERROR when its message is a list) and any non-HTTP exception to
\* INTERNAL_SERVER_ERROR.  An HttpException of status 401 or of a status the
\* filter does not name gets another code.
C24_Original ==
    /\ last.op = "catch" =>
          /\ last.value.body.code \in SpecCodes
          /\ C24_Mappings(last.arg.exception, last.value)
    /\ C24_Failed =>
          /\ catch(exceptionOf(last.status), "/announcements").body.code \in SpecCodes
          /\ C24_Mappings(exceptionOf(last.status),
                          catch(exceptionOf(last.status), "/announcements"))

\* C24, amended: every error response of the global exception filter has a
\* code among the six above, UNAUTHORIZED and UNKNOWN_ERROR; UNAUTHORIZED is
\* given exactly to HTTP exceptions of status 401, UNKNOWN_ERROR exactly to
\* HTTP exceptions of a status other than 400, 401, 403, 404, 429 and 500;
\* NotFound maps to NOT_FOUND, Forbidden to FORBIDDEN, BadRequest to
\* BAD_REQUEST (VALIDATION_ERROR when its message is a list), 429 to
\* TOO_MANY_REQUESTS, and any non-HTTP exception to INTERNAL_SERVER_ERROR
\* with status 500.
C24_ErrorCodes ==
    /\ last.op = "catch" =>
          LET exception == last.arg.exception
              code == last.value.body.code
          IN /\ code \in SpecCodes \cup {"UNAUTHORIZED", "UNKNOWN_ERROR"}
             /\ code = "UNAUTHORIZED" <=> (exception.http /\ exception.status = 401)
             /\ code = "UNKNOWN_ERROR" <=>
                   (exception.http
                    /\ exception.status \notin {400, 401, 403, 404, 429, 500})
             /\ (exception.http /\ exception.status = 429) => code = "TOO_MANY_REQUESTS"
             /\ (exception.http /\ exception.status = 500) => code = "INTERNAL_SERVER_ERROR"
             /\ C24_Mappings(exception, last.value)
             /\ last.value.body.path = last.arg.url
             /\ Store = before
    /\ C24_Failed =>
          LET response == catch(exceptionOf(last.status), "/announcements")
          IN /\ response.body.code =
                   CASE last.status = "NotFound" -> "NOT_FOUND"
                     [] last.status = "Forbidden" -> "FORBIDDEN"
                     [] last.status = "BadRequest" -> "BAD_REQUEST"
                     [] OTHER -> "INTERNAL_SERVER_ERROR"
             /\ C24_Mappings(exceptionOf(last.status), response)

\* a validation failure (status 400 with a list of messages) was answered
C24_Witness ==
    /\ last.op = "catch"
    /\ last.arg.exception.http
    /\ last.arg.exception.status = 400
    /\ last.arg.exception.response.isObject
    /\ last.arg.exception.response.message.isArray
    /\ last.value.body.code = "VALIDATION_ERROR"
    /\ last.value.body.details = <<"e1", "e2">>

\* an HTTP exception of a status the filter does not name was answered
C24_WitnessUnknown ==
    /\ last.op = "catch"
    /\ last.arg.exception.http
    /\ last.arg.exception.status = 413
    /\ last.value.body.code = "UNKNOWN_ERROR"

\* a read with limit 0 failed with an error that is no HttpException
C24_WitnessTypeError ==
    /\ last.op = "getComments"
    /\ last.status = "TypeError"

----------------------------------------------------------------------------
(* C26 *)

\* C26 as stated: findAll is a pure read: a findAll request leaves the
\* summaries, their order and the etag of findAllWithSummary as they were,
\* also when two announcements have equal lastActivityAt.  The sort of
\* findAll reorders the stored array, and the summaries of announcements with
\* equal lastActivityAt follow the array.
C26_Original ==
    [][(now' = now /\ last'.op = "findAll")
          => findAllWithSummary' = findAllWithSummary]_vars

----------------------------------------------------------------------------
(* C27 *)

\* C27 as stated: for a known announcement, every limit >= 0 (0 included) and
\* every cursor, getComments does not fail and returns at most `limit`
\* comments, all of that announcement; NotFound for an unknown announcement is
\* its only failure.  With limit 0 the empty page counts as full and the id of
\* its last comment is read.
C27_Original ==
    last.op = "getComments" =>
        IF last.id \in AnnouncementIds
        THEN /\ last.status = "ok"
             /\ Len(last.value.comments) <= last.arg.limit
             /\ \A i \in DOMAIN last.value.comments :
                   last.value.comments[i].announcementId = last.id
        ELSE last.status = "NotFound"

----------------------------------------------------------------------------
(* C28 *)

\* the last request read a page of a known announcement's comments
C28_PageRead ==
    /\ last.op = "getComments"
    /\ last.status = "ok"
    /\ last.id \in AnnouncementIds

\* C28 as stated: getComments returns a nextCursor only when a further comment
\* exists after the returned page: with no mutation in between, the call that
\* passes a returned nextCursor returns a non-empty page.  A full page that
\* ends with the oldest comment carries a nextCursor all the same.
C28_Original ==
    (C28_PageRead /\ last.value.nextCursor # NoCursor) =>
        LET next == getComments(last.id, last.value.nextCursor, last.arg.limit)
        IN /\ next.status = "ok"
           /\ next.value.comments # <<>>

\* C28, amended: getComments returns a nextCursor exactly when the page is
\* full (as many comments as the limit), and it is the id of the page's last
\* comment; without a nextCursor no comment follows the page.  With no
\* mutation in between, the call that passes a returned nextCursor returns the
\* comments that follow the page, up to the limit: a non-empty page exactly
\* when a further comment exists, and an empty page without nextCursor when
\* the full page ended with the announcement's oldest comment.
C28_NextCursor ==
    C28_PageRead =>
        LET page == last.value.comments
            cursor == last.value.nextCursor
            L == last.arg.limit
            ordered == NewestFirst(CommentsOf(comments, last.id))
        IN /\ cursor # NoCursor <=> Len(page) = L
           /\ cursor = NoCursor =>
                 IF page # <<>>
                 THEN page[Len(page)].id = ordered[Len(ordered)].id
                 ELSE \/ ordered = <<>>
                      \/ last.arg.cursor = ordered[Len(ordered)].id
           /\ cursor # NoCursor =>
                 LET next == getComments(last.id, cursor, L)
                     k == PlaceOf(ordered, cursor)
                     rest == SubSeq(ordered, k + 1, Len(ordered))
                 IN /\ cursor = page[Len(page)].id
                    /\ next.status = "ok"
                    /\ next.value.comments
                          = SubSeq(rest, 1, IF L < Len(rest) THEN L ELSE Len(rest))
                    /\ next.value.comments # <<>> <=> k < Len(ordered)
                    /\ k = Len(ordered) =>
                          /\ next.value.comments = <<>>
                          /\ next.value.nextCursor = NoCursor

\* a full page ended with the oldest comment: its nextCursor leads to an empty
\* page
C28_Witness ==
    /\ C28_PageRead
    /\ last.arg.limit = 2
    /\ Len(CommentsOf(comments, last.id)) = 2
    /\ last.value.nextCursor # NoCursor
    /\ getComments(last.id, last.value.nextCursor, last.arg.limit).value.comments = <<>>

\* a full page was followed by further comments
C28_WitnessMore ==
    /\ C28_PageRead
    /\ last.value.nextCursor # NoCursor
    /\ getComments(last.id, last.value.nextCursor, last.arg.limit).value.comments # <<>>

----------------------------------------------------------------------------
(* C25 *)

\* the type of u's reaction on announcement a among the rows rs, none without
TypeOf(rs, a, u) == IF RowsOf(rs, a, u) = <<>> THEN None ELSE RowsOf(rs, a, u)[1].type

\* the last request was sent by a click on a button of the Reactions component
C25_Clicked ==
    /\ client.Reactions.announcementId # 0
    /\ client.Reactions.clicked # None
    /\ last.userId = getUserId
    /\ last.op \in {"addReaction", "removeReaction"}

\* C25: one user clicking the buttons of the Reactions component, which starts
\* with its local pointer equal to the server's stored reaction: a click on
\* the type the pointer is on sends a remove and leaves the user with no
\* reaction on the server; a click on any other type (from none or from a
\* different type) sends a set and leaves the user with exactly the clicked
\* type; after every click the local pointer equals the server's stored
\* reaction, and the reactions of other users are as they were.
C25_Toggle ==
    LET id == client.Reactions.announcementId
        pointer == client.Reactions.localUserReaction
        clicked == client.Reactions.clicked
    IN /\ id # 0 => pointer = TypeOf(reactions, id, getUserId)
       /\ C25_Clicked =>
             LET was == TypeOf(before.reactions, id, getUserId)
             IN /\ last.id = id
                /\ last.status = "ok"
                /\ last.op = "removeReaction" <=> clicked = was
                /\ last.op = "removeReaction" =>
                      /\ RowsOf(reactions, id, getUserId) = <<>>
                      /\ pointer = None
                /\ last.op = "addReaction" =>
                      /\ last.arg.type = clicked
                      /\ Len(RowsOf(reactions, id, getUserId)) = 1
                      /\ TypeOf(reactions, id, getUserId) = clicked
                      /\ pointer = clicked
                /\ \A u \in Users \ {getUserId} :
                      RowsOf(reactions, id, u) = RowsOf(before.reactions, id, u)

\* a click on the type the pointer was on removed the user's reaction while
\* another user's reaction stayed
C25_Witness ==
    /\ C25_Clicked
    /\ last.op = "removeReaction" /\ last.status = "ok"
    /\ TypeOf(before.reactions, last.id, getUserId) = client.Reactions.clicked
    /\ client.Reactions.localUserReaction = None
    /\ RowsOf(reactions, last.id, "u2") # <<>>

\* a click on another type moved the user's reaction
C25_WitnessSwitch ==
    /\ C25_Clicked
    /\ last.op = "addReaction" /\ last.status = "ok"
    /\ TypeOf(before.reactions, last.id, getUserId) \notin {None, client.Reactions.clicked}
    /\ client.Reactions.localUserReaction = client.Reactions.clicked

\* a click set the clicked type for a user who had no reaction
C25_WitnessFromNone ==
    /\ C25_Clicked
    /\ last.op = "addReaction"
    /\ TypeOf(before.reactions, last.id, getUserId) = None

----------------------------------------------------------------------------
(* C29 *)

\* C29 as stated: a cursor traversal of an announcement's comments (the first
\* call without cursor, then each returned nextCursor) never returns the same
\* comment twice, also when other requests add or delete comments of the
\* announcement between the page requests.  When the comment the cursor names
\* has been deleted, the next page starts again from the newest comment.
C29_Original ==
    \A i, j \in DOMAIN client.Comments.comments :
        client.Comments.comments[i].id = client.Comments.comments[j].id => i = j

----------------------------------------------------------------------------
(* C30 *)

\* two outcomes agree in the result and in everything they leave in the store
\* but the announcements
C30_SameOutcome(x, y) ==
    /\ x.status = y.status
    /\ x.value = y.value
    /\ x.nextId = y.nextId
    /\ x.store.comments = y.store.comments
    /\ x.store.reactions = y.store.reactions
    /\ x.store.reactionCounters = y.store.reactionCounters

\* the step is an update that changes the status of announcement last'.id: the
\* states before and after it differ in that status alone
C30_StatusFlipped ==
    /\ now' = now
    /\ last'.op = "update"
    /\ last'.status = "ok"
    /\ StatusOf(announcements, last'.id) # StatusOf(announcements', last'.id)
    /\ comments' = comments /\ reactions' = reactions
    /\ reactionCounters' = reactionCounters /\ nextId' = nextId

\* C30: an announcement's status gates no operation: addComment,
\* deleteComment, addReaction and removeReaction on a closed announcement have
\* the same result and the same effect as on an active announcement in an
\* otherwise identical state, and none of them changes the announcements.
\* Compared in the two states of every step that flips the status.
C30_StatusBlind ==
    [][\A id \in AnnouncementIds : (C30_StatusFlipped /\ last'.id = id) =>
          /\ \A dto \in CommentDtos(Authors), userId \in Headers :
                /\ C30_SameOutcome(addComment(id, dto, userId),
                                   addComment(id, dto, userId)')
                /\ addComment(id, dto, userId).store.announcements = announcements
                /\ addComment(id, dto, userId)'.store.announcements = announcements'
          /\ \A commentId \in CommentIdArgs, userId \in Users :
                /\ C30_SameOutcome(deleteComment(id, commentId, userId),
                                   deleteComment(id, commentId, userId)')
                /\ deleteComment(id, commentId, userId)'.store.announcements
                      = announcements'
          /\ \A dto \in ReactionDtos, userId \in Users :
                /\ C30_SameOutcome(addReaction(id, userId, dto),
                                   addReaction(id, userId, dto)')
                /\ addReaction(id, userId, dto)'.store.announcements = announcements'
          /\ \A userId \in Users :
                /\ C30_SameOutcome(removeReaction(id, userId),
                                   removeReaction(id, userId)')
                /\ removeReaction(id, userId)'.store.announcements = announcements'
      ]_vars

\* a comment was added to a closed announcement
C30_Witness ==
    /\ last.op = "addComment" /\ last.status = "ok"
    /\ StatusOf(announcements, last.id) = "closed"
    /\ Len(comments) = Len(before.comments) + 1

\* a comment or a reaction was removed from a closed announcement
C30_WitnessRemoved ==
    /\ last.op \in {"deleteComment", "removeReaction"} /\ last.status = "ok"
    /\ StatusOf(announcements, last.id) = "closed"

\* a reaction was set on a closed announcement that had comments
C30_WitnessReaction ==
    /\ last.op = "addReaction" /\ last.status = "ok"
    /\ StatusOf(announcements, last.id) = "closed"
    /\ CommentsOf(comments, last.id) # <<>>

====
